---- MODULE Spec2Model ----
\* Greenhouse digital twin (ryanw-2/sankofa_twin): the predictive heater/vent
\* controller (twin/Predictive.py), the thermal engine's simulate_step
\* (twin/GreenhouseEngine.py, twin/ThermalMass.py) and the time-of-use energy
\* accounting (twin/energy.py, energy.py).
\*
\* Numbers.  The program computes in IEEE doubles; the model computes in fixed
\* point.  Temperatures are integers in tenths of a degree Celsius (180 is
\* 18.0 degC), powers are Watts, rates are 1e-4 $/kWh, energies are tenths of
\* a kWh.  Every division rounds toward minus infinity (\div).
EXTENDS Integers, Sequences, FiniteSets, TLC

\* ---------------------------------------------------------------- bounds
\* decide() calls made on one controller instance
MaxCalls == 5
\* rows of a forecast window handed to decide() directly
MaxWin == 2
\* rows of a forecast handed to simulate_step
MaxFc == 3
\* simulate_step calls made on one engine
MaxRuns == 3
\* rows of a frame handed to estimate_energy
MaxRows == 2
\* update_temperature calls made on one ThermalMass built on its own
MaxMassCalls == 2
\* decide calls and simulation hours of each of two independent runs
MaxIsoOps == 2
MaxPredCalls == 4

\* ------------------------------------------- Predictive: the dataclass
\* Fields and class attributes of Predictive, tenths of a degree.
T_set == 180
deadband == 30
safety_margin == 5
min_on_steps == 3
min_off_steps == 3
\* The controller GreenhouseConfig._build_controller builds for the default
\* configuration (num_footings = 8, design_temp_diff_C = 25):
\*   C_J_K = mass_kg * 920 + 1.225 * volume * 1005 = 24 298 093.7 J/K
\*   U_W_K = ua_envelope + leak_U + 1500           =      1 967.66 W/K
\*   heater_W = int((Q_cond + Q_vent) * 1.60)      =     23 406 W
C_kJ_K == 24298
U_W_K == 1968
heater_W == 23406
vent_max_ach == 2
\* dt_s / C_J_K = 3600 / 24 298 093.7 = 1 / 6749.47 K per W
C_per_dt == 6749
\* alpha = np.exp(-U_W_K * dt_s / C_J_K) = exp(-0.291528) = 0.747121
alpha_num == 7471
alpha_den == 10000
\* the fixed excess margin of the ventilation band, 5 degC
vent_excess == 50

\* ---------------------------------------------------------------- inputs
\* air temperatures: below low_band (16.0), between low_band and the low
\* hard limit (16.5), inside the comfort band, above the high hard limit (19.5)
AirTemps == {150, 162, 180, 200}
\* forecast rows (exterior temperature, solar gain)
WinRows == { [temp |-> -50, Q_solar |-> 0],
             [temp |-> 180, Q_solar |-> 0],
             [temp |-> 350, Q_solar |-> 6000] }
Windows == UNION { [1..n -> WinRows] : n \in 0..MaxWin }
\* the same air temperatures and one above the ventilation band (24.5)
PredAirTemps == AirTemps \cup {250}

\* forecasts for simulate_step: the winter sample of GreenhouseEngine.py
\* (lines 319-331) and a calm, dark forecast at a constant 20.0 degC, cut to
\* n rows; datetime is the hour of the row's timestamp.
WinterTemp == << -50, -50, -40, -30, -20, 0 >>
WinterWind == << 3, 4, 4, 5, 4, 3 >>
WinterSolar == << 0, 0, 1500, 3000, 4500, 6000 >>
Forecast(kind, n) ==
  [i \in 1..n |->
     IF kind = "winter"
     THEN [datetime |-> 5 + i, temp |-> WinterTemp[i],
           wind_speed |-> WinterWind[i], Q_solar |-> WinterSolar[i]]
     ELSE [datetime |-> 5 + i, temp |-> 200, wind_speed |-> 0, Q_solar |-> 0]]
Forecasts == { Forecast(kind, n) : kind \in {"winter", "constant"}, n \in 0..MaxFc }
SimArgs == [initial_air_temp : {150, 200}, initial_mass_temp : {200},
            forecast_df : Forecasts, start_i : {0, 1}, steps : {0, 1, 2},
            horizon : {1, 2}]

\* timestamps for get_rate: (dt.weekday(), dt.hour), Monday = 0
Datetimes == [weekday : 0..6, hour : 0..23]
\* rows for estimate_energy: Monday 17:00, Saturday 17:00, Thursday 23:00;
\* heating is heater_on as 0/1, venting is vent_ach (0 or 2 ACH)
EnergyRow(weekday, hour, heating, venting) ==
  [datetime |-> [weekday |-> weekday, hour |-> hour],
   heating |-> heating, venting |-> venting]
EnergyRows == { EnergyRow(0, 17, 1, 0), EnergyRow(0, 17, 1, 2),
                EnergyRow(5, 17, 1, 0), EnergyRow(5, 17, 0, 2),
                EnergyRow(3, 23, 1, 2), EnergyRow(3, 23, 0, 0) }
EnergyFrames == UNION { [1..n -> EnergyRows] : n \in 0..MaxRows }
\* heat_kwh_hourly (default 2.0 kWh) and vent_kwh_hourly (default 0.5 kWh)
HeatKwh == {20, 35}
VentKwh == {5}

\* GreenhouseConfig arguments: num_footings, and design_temp_diff_C as the
\* fraction num / den of a Kelvin (0.0005, 1, 25, 26, 70, 0, -5)
NumFootings == {-30, -25, -1, 0, 1, 2, 8, 9}
DesignDTs == { [num |-> 1, den |-> 2000], [num |-> 1, den |-> 1],
               [num |-> 25, den |-> 1], [num |-> 26, den |-> 1],
               [num |-> 70, den |-> 1], [num |-> 0, den |-> 1],
               [num |-> -5, den |-> 1] }
ConfigModules == {"GreenhouseEngine", "GreenhouseConfig"}

\* ThermalMass(mass_kg, specific_heat, initial_temp): the nodes of
\* greenhouse_test.py (100 kg and 50 kg at 1000 J/kg/K) and the nodes of a
\* config with 1 and with 8 footings (20 432 kg and 26 140 kg at 920 J/kg/K)
MassNodes == { [mass_kg |-> 100, specific_heat |-> 1000],
               [mass_kg |-> 50, specific_heat |-> 1000],
               [mass_kg |-> 20432, specific_heat |-> 920],
               [mass_kg |-> 26140, specific_heat |-> 920] }
MassInitialTemps == {200, 400}
MassHeats == {0, 1000}
MassAirTemps == {150, 200, 400}
\* how update_temperature is called: as its signature has it, as
\* greenhouse_test.py calls it (step_hours = 1 by keyword), as the engine's
\* sub-step calls it (a third positional argument)
\* the callers: shape of the call and the seconds of the step the caller is
\* advancing (the test an hour, the engine a 15-minute sub-step)
Callers == { [shape |-> "signature", step |-> 3600],
             [shape |-> "signature", step |-> 900],
             [shape |-> "test", step |-> 3600],
             [shape |-> "engine", step |-> 900] }

\* cfg objects for calculate_heat_loss_W: areas in 1e-2 m2, resistances in
\* 1e-4 m2 K/W, volume in 1e-2 m3, leak rate in 1e-2 per hour.  DummyCfg is
\* the stub of greenhouse_test.py (everything 1.0), EngineCfg the default
\* GreenhouseConfig (wall_R = 3 / 5.678263 and so on).
DummyCfg == [wall_A |-> 100, roof_A |-> 100, floor_A |-> 100, glazing_A |-> 100,
             wall_R |-> 10000, roof_R |-> 10000, floor_R |-> 10000,
             glazing_R |-> 10000, volume_m3 |-> 100, leak_ach |-> 100]
EngineCfg == [wall_A |-> 8416, roof_A |-> 7626, floor_A |-> 6631,
              glazing_A |-> 8416 + 7626,
              wall_R |-> 5283, roof_R |-> 3170, floor_R |-> 14089,
              glazing_R |-> 3125, volume_m3 |-> 20212, leak_ach |-> 30]
LossCfgs == {DummyCfg, EngineCfg}
LossAirTemps == {100, 150, 200, 300}
LossExtTemps == {-50, 100, 200, 300, 350}
LossWinds == {0, 3, 5}
\* vent_ach in tenths of an air change per hour: 0, 0.5, 2.0 (vent_max_ach), 3.0
VentAchs == {0, 5, 20, 30}

\* the two independent runs, and what a run does next: a decide call on its
\* controller or one simulated hour on its engine
RunIds == {1, 2}
IsoOps ==
  [kind : {"decide"}, air_temp : {150, 200},
   forecast_df : { << [temp |-> -50, Q_solar |-> 0] >>,
                   << [temp |-> -50, Q_solar |-> 0], [temp |-> -50, Q_solar |-> 0] >> }]
  \cup [kind : {"hour"}, air_temp : {150, 200}, forecast_df : { Forecast("winter", 2) }]

VARIABLES
  _heater_state,   \* Predictive._heater_state
  _on_timer,       \* Predictive._on_timer
  _off_timer,      \* Predictive._off_timer
  hist,            \* the decide() calls that returned, oldest first
  last,            \* detail of the most recent decide() call
  temp_c,          \* ThermalMass.temp_c of engine.mass
  runs,            \* simulate_step calls made on the engine so far
  sim,             \* the most recent simulate_step call and how it ended
  energy_call,     \* the most recent get_rate / estimate_energy call
  config_call,     \* the most recent GreenhouseConfig(...) construction
  mass_node,       \* a ThermalMass built on its own, and the last call on it
  loss_call,       \* the most recent calculate_heat_loss_W call
  iso,             \* two runs, each with its own config, controller and engine
  pred,            \* a decide() call with its window and its prediction kept
  vent_call        \* the most recent calculate_venting_loss_W call

vars == << _heater_state, _on_timer, _off_timer, hist, last, temp_c, runs, sim,
           energy_call, config_call, mass_node, loss_call, iso, pred, vent_call >>
\* the variables of the controller, the engine and the energy accounting
twinVars == << _heater_state, _on_timer, _off_timer, hist, last, temp_c, runs, sim,
               energy_call >>
\* the variables of the construction, the mass node, the heat loss, the two
\* independent runs, the kept prediction and the ventilation loss
partVars == << config_call, mass_node, loss_call, iso, pred, vent_call >>

\* ----------------------------------------------- Predictive.decide

Controller == [heater_state |-> _heater_state,
               on_timer |-> _on_timer, off_timer |-> _off_timer]

\* One step of the unforced roll-out (lines 33-42): the decay term plus
\* net_W * dt_s / C_J_K, where net_W subtracts the envelope loss once more.
PredStep(T_prev, row) ==
  LET net_W10 == 10 * row.Q_solar - U_W_K * (T_prev - row.temp)
  IN  row.temp + ((T_prev - row.temp) * alpha_num) \div alpha_den
               + net_W10 \div C_per_dt

\* T_pred_off as a sequence; element i+1 is the program's T_pred_off[i].
\* Only called with H >= 1 (H = 0 raises at line 31).
RECURSIVE T_pred_off(_, _, _)
T_pred_off(air_temp, forecast_df, n) ==
  IF n = 1 THEN << air_temp >>
  ELSE LET p == T_pred_off(air_temp, forecast_df, n - 1)
       IN  Append(p, PredStep(p[n - 1], forecast_df[n - 1]))

\* np.argmax of a boolean mask: the 0-based index of the first True, 0 if none.
ArgMax(mask) ==
  IF \E i \in DOMAIN mask : mask[i]
  THEN (CHOOSE i \in DOMAIN mask : mask[i] /\ \A j \in 1..(i - 1) : ~mask[j]) - 1
  ELSE 0

SeqMin(s) == CHOOSE m \in { s[i] : i \in DOMAIN s } : \A i \in DOMAIN s : m <= s[i]

low_band == T_set - deadband \div 2 - safety_margin
hi_band == T_set + deadband \div 2 + vent_excess

\* lead_steps = int(np.ceil(tau / dt_hr)), line 49-50, with
\* tau = C_J_K / (U_W_K + heater_W / (T_set - T_ext.min() + 1e-6)).
\* With d = T_set - T_ext.min() in tenths: for d = 0 the epsilon alone is the
\* divisor and tau = C * 1e-6 / (U * 1e-6 + heater_W), between 0 and 1; for
\* d # 0, tau = C * d / (U * d + 10 * heater_W) seconds (the epsilon changes
\* the quotient by less than 1e-4 of its value).
Ceil(num, den) == -((-num) \div den)
lead_steps(T_ext_min) ==
  LET d == T_set - T_ext_min
      den == U_W_K * d + 10 * heater_W
      N == C_kJ_K * d
  IN  IF d = 0 THEN 1
      ELSE IF den = 0 THEN 0
      ELSE IF (N >= 0) = (den > 0)
           THEN \* tau > 0
                LET n == IF N < 0 THEN -N ELSE N
                    m == IF den < 0 THEN -den ELSE den
                IN  (n \div m) * 1000 + Ceil((n % m) * 1000, m)
           ELSE \* tau < 0
                LET n == IF N < 0 THEN -N ELSE N
                    m == IF den < 0 THEN -den ELSE den
                IN  -((n \div m) * 1000 + ((n % m) * 1000) \div m)

\* What lines 49-50 raise.  The operands are numpy float64, for which a
\* division by zero gives inf and no exception: with the epsilon the inner
\* divisor T_set - T_ext.min() + 1e-6 is not 0 at T_ext.min() = T_set, and
\* where the outer divisor U_W_K + heater_W / (...) is 0, tau is inf and
\* int(np.ceil(inf)) raises OverflowError.
lead_time_error_Unguarded(T_ext_min) ==
  IF T_set - T_ext_min = 0 THEN "ZeroDivisionError"
  ELSE IF U_W_K * (T_set - T_ext_min) + 10 * heater_W = 0 THEN "OverflowError"
  ELSE "none"

lead_time_error(T_ext_min) ==
  IF T_set - T_ext_min # 0 /\ U_W_K * (T_set - T_ext_min) + 10 * heater_W = 0
  THEN "OverflowError"
  ELSE "none"

\* lines 44-53: the decision the forecast alone asks for
ForecastDecision(air_temp, forecast_df) ==
  LET H == Len(forecast_df)
      T_pred == T_pred_off(air_temp, forecast_df, H)
      drop_idx == ArgMax([i \in 1..H |-> T_pred[i] < low_band])
      need_heat == drop_idx # 0
      T_ext == [i \in 1..H |-> forecast_df[i].temp]
  IN  need_heat /\ drop_idx <= lead_steps(SeqMin(T_ext))

\* lines 55-64: dwell counters and minimum-dwell gating
Hysteresis_NoOnDwell(c, heater_on) ==
  IF c.heater_state
  THEN [on_timer |-> c.on_timer + 1, off_timer |-> 0, heater_on |-> heater_on]
  ELSE [on_timer |-> 0, off_timer |-> c.off_timer + 1,
        heater_on |-> IF c.off_timer + 1 < min_off_steps THEN FALSE ELSE heater_on]

Hysteresis_NoOffDwell(c, heater_on) ==
  IF c.heater_state
  THEN [on_timer |-> c.on_timer + 1, off_timer |-> 0,
        heater_on |-> IF c.on_timer + 1 < min_on_steps THEN TRUE ELSE heater_on]
  ELSE [on_timer |-> 0, off_timer |-> c.off_timer + 1, heater_on |-> heater_on]

\* (the gating without the reset of the other counter, lines 57 and 62)
Hysteresis_NoReset(c, heater_on) ==
  IF c.heater_state
  THEN [on_timer |-> c.on_timer + 1, off_timer |-> c.off_timer,
        heater_on |-> IF c.on_timer + 1 < min_on_steps THEN TRUE ELSE heater_on]
  ELSE [on_timer |-> c.on_timer, off_timer |-> c.off_timer + 1,
        heater_on |-> IF c.off_timer + 1 < min_off_steps THEN FALSE ELSE heater_on]

Hysteresis(c, heater_on) ==
  IF c.heater_state
  THEN [on_timer |-> c.on_timer + 1, off_timer |-> 0,
        heater_on |-> IF c.on_timer + 1 < min_on_steps THEN TRUE ELSE heater_on]
  ELSE [on_timer |-> 0, off_timer |-> c.off_timer + 1,
        heater_on |-> IF c.off_timer + 1 < min_off_steps THEN FALSE ELSE heater_on]

\* lines 66-70: the hard comfort-band overrides
HardOverride(c, air_temp, heater_on) ==
  LET h1 == IF c.heater_state /\ 2 * air_temp > 2 * T_set + deadband
            THEN FALSE ELSE heater_on
  IN  IF ~c.heater_state /\ 2 * air_temp < 2 * T_set - deadband
      THEN TRUE ELSE h1

\* lines 75-78
VentDecision(air_temp, forecast_df) ==
  LET H == Len(forecast_df)
      T_pred == T_pred_off(air_temp, forecast_df, H)
  IN  IF \E i \in 1..H : T_pred[i] > hi_band THEN vent_max_ach ELSE 0

\* (decide without the store of line 72)
decide_StateNotStored(c, air_temp, forecast_df) ==
  IF Len(forecast_df) = 0
  THEN [raised |-> "IndexError", ctl |-> c,
        heater_on |-> FALSE, part_load |-> 0, vent_ach |-> 0, want |-> FALSE]
  ELSE LET want == ForecastDecision(air_temp, forecast_df)
           g == Hysteresis(c, want)
           heater_on == HardOverride(c, air_temp, g.heater_on)
       IN  [raised |-> "none",
            ctl |-> [heater_state |-> c.heater_state,
                     on_timer |-> g.on_timer, off_timer |-> g.off_timer],
            heater_on |-> heater_on,
            part_load |-> IF heater_on THEN 1 ELSE 0,
            vent_ach |-> VentDecision(air_temp, forecast_df),
            want |-> want]

\* The whole call.  An empty window raises IndexError at line 31, and the
\* lead time may raise at line 50, before any field of the controller is
\* written.
decide(c, air_temp, forecast_df) ==
  IF Len(forecast_df) = 0
  THEN [raised |-> "IndexError", ctl |-> c,
        heater_on |-> FALSE, part_load |-> 0, vent_ach |-> 0, want |-> FALSE]
  ELSE IF lead_time_error(SeqMin([i \in 1..Len(forecast_df) |-> forecast_df[i].temp]))
          # "none"
  THEN [raised |-> lead_time_error(SeqMin([i \in 1..Len(forecast_df) |->
                                            forecast_df[i].temp])),
        ctl |-> c,
        heater_on |-> FALSE, part_load |-> 0, vent_ach |-> 0, want |-> FALSE]
  ELSE LET want == ForecastDecision(air_temp, forecast_df)
           g == Hysteresis(c, want)
           heater_on == HardOverride(c, air_temp, g.heater_on)
       IN  [raised |-> "none",
            ctl |-> [heater_state |-> heater_on,
                     on_timer |-> g.on_timer, off_timer |-> g.off_timer],
            heater_on |-> heater_on,
            part_load |-> IF heater_on THEN 1 ELSE 0,
            vent_ach |-> VentDecision(air_temp, forecast_df),
            want |-> want]

\* What hist and last keep of a decide call.
NoCall == [raised |-> "none", air_temp |-> 0, H |-> 0, want |-> FALSE,
           state_in |-> FALSE, on_in |-> 0, off_in |-> 0,
           heater_on |-> FALSE, part_load |-> 0, vent_ach |-> 0]

CallRecord(c, air_temp, forecast_df, r) ==
  [raised |-> r.raised, air_temp |-> air_temp, H |-> Len(forecast_df),
   want |-> r.want, state_in |-> c.heater_state,
   on_in |-> c.on_timer, off_in |-> c.off_timer,
   heater_on |-> r.heater_on, part_load |-> r.part_load, vent_ach |-> r.vent_ach]

\* ------------------------------------------- ThermalMass (ThermalMass.py)
HEAT_EXCHANGE_RATE == 50
\* initial_temp default of ThermalMass.__init__, the value the engine's mass
\* node is built with (GreenhouseEngine.py line 137 passes none)
mass_initial_temp == 200
\* cfg.mass_kg * cfg.mass_c_p = 26 140.5 kg * 920 J/kg/K
mass_J_K == 24049258
\* positional parameters update_temperature accepts besides self
update_temperature_params == 2

\* step_seconds of update_temperature, line 24
step_seconds == 3600

\* lines 23-26, on self.temp_c = temp: total_heat_input_joules, in 0.1 J
total_heat_input_joules_AwayFromAir(temp, heat_input_watts, air_temp) ==
  LET temp_diff == temp - air_temp
      heat_exchange_joules == HEAT_EXCHANGE_RATE * temp_diff * step_seconds
  IN  10 * heat_input_watts * step_seconds + heat_exchange_joules

total_heat_input_joules_InitialTemp(temp, heat_input_watts, air_temp) ==
  LET temp_diff == air_temp - mass_initial_temp
      heat_exchange_joules == HEAT_EXCHANGE_RATE * temp_diff * step_seconds
  IN  10 * heat_input_watts * step_seconds + heat_exchange_joules

total_heat_input_joules(temp, heat_input_watts, air_temp) ==
  LET temp_diff == air_temp - temp
      heat_exchange_joules == HEAT_EXCHANGE_RATE * temp_diff * step_seconds
  IN  10 * heat_input_watts * step_seconds + heat_exchange_joules

\* lines 22-29 for a node of heat capacity mass_kg * specific_heat = C, on
\* self.temp_c = temp: the new self.temp_c, also returned
ThermalMass_update(C, temp, heat_input_watts, air_temp) ==
  temp + total_heat_input_joules(temp, heat_input_watts, air_temp) \div C

\* lines 22-29 for the engine's mass node
update_temperature(temp, heat_input_watts, air_temp) ==
  ThermalMass_update(mass_J_K, temp, heat_input_watts, air_temp)

\* Binding a call to update_temperature(self, heat_input_watts, air_temp):
\* TypeError for a third positional argument and for a keyword that is not a
\* parameter.
BindUpdateTemperature(shape) ==
  LET positional == IF shape = "engine" THEN 3 ELSE update_temperature_params
      keywords == IF shape = "test" THEN {"step_hours"} ELSE {}
  IN  IF positional > update_temperature_params
         \/ keywords \ {"heat_input_watts", "air_temp"} # {}
      THEN "TypeError" ELSE "none"

\* self.mass.update_temperature(*args): Python binds the arguments first and
\* raises TypeError when their number is not the method's.
CallUpdateTemperature(temp, args) ==
  IF Len(args) # update_temperature_params
  THEN [raised |-> "TypeError", temp_c |-> temp, value |-> 0]
  ELSE LET t == update_temperature(temp, args[1], args[2])
       IN  [raised |-> "none", temp_c |-> t, value |-> t]

\* ------------------------- GreenhouseThermalEngine (GreenhouseEngine.py)
\* wall_A/wall_R + roof_A/roof_R + floor_A/floor_R + glazing_A/glazing_R
\* = 960.26 W/K, in 1e-2 W/K
UA_cond_c == 96026
\* volume_m3 * leak_ach / 3600 * 1.2 * 1005 = 20.31 W/K, in 1e-2 W/K
UA_inf_c == 2031
\* AIR_DENSITY * volume_m3 / 3600 * CP_AIR = 69.12 W/K per ACH, in 1e-2 W/K
UA_vent_c == 6912
h_ma == 1500
\* (rho_cp_V + mass_kg * mass_c_p) / (SUB_DT_S * 10) = 24 298 094 / 9000
C_per_sub == 2700

\* lines 141-164; temperatures in tenths, the result in W
calculate_heat_loss_W(air_temp, ext_temp, wind_m_s) ==
  LET dT == air_temp - ext_temp
      Q_cond == UA_cond_c * dT
      Q_inf == UA_inf_c * dT
  IN  (((Q_cond + Q_inf) \div 1000) * (100 + 5 * wind_m_s)) \div 100

\* lines 141-164 for any cfg; conductances in 1e-3 W/K, the result in 1e-2 W
heat_loss_NoWind(cfg, air_temp, ext_temp, wind_m_s) ==
  LET dT == air_temp - ext_temp
      Q_cond == ( (cfg.wall_A * 100000) \div cfg.wall_R
                + (cfg.roof_A * 100000) \div cfg.roof_R
                + (cfg.floor_A * 100000) \div cfg.floor_R
                + (cfg.glazing_A * 100000) \div cfg.glazing_R ) * dT
      m_dot == (cfg.volume_m3 * cfg.leak_ach * 12) \div 100
      Q_inf == ((m_dot * 1005) \div 3600) * dT
  IN  (Q_cond + Q_inf) \div 100

heat_loss(cfg, air_temp, ext_temp, wind_m_s) ==
  LET dT == air_temp - ext_temp
      Q_cond == ( (cfg.wall_A * 100000) \div cfg.wall_R
                + (cfg.roof_A * 100000) \div cfg.roof_R
                + (cfg.floor_A * 100000) \div cfg.floor_R
                + (cfg.glazing_A * 100000) \div cfg.glazing_R ) * dT
      m_dot == (cfg.volume_m3 * cfg.leak_ach * 12) \div 100
      Q_inf == ((m_dot * 1005) \div 3600) * dT
  IN  (((Q_cond + Q_inf) \div 100) * (100 + 5 * wind_m_s)) \div 100

\* lines 166-179 for any cfg: volume in 1e-2 m3, vent_ach in tenths per
\* hour, temperatures in tenths; mass_flow in 1e-6 kg/s, the result in 1e-2 W
vent_loss_NoColdGuard(cfg, air_temp, ext_temp, vent_ach) ==
  LET dT == air_temp - ext_temp
      mass_flow == (1225 * cfg.volume_m3 * vent_ach) \div 3600
  IN  IF vent_ach = 0 THEN 0
      ELSE (((mass_flow * 1005) \div 1000) * dT) \div 100

vent_loss(cfg, air_temp, ext_temp, vent_ach) ==
  LET dT == air_temp - ext_temp
      mass_flow == (1225 * cfg.volume_m3 * vent_ach) \div 3600
  IN  IF vent_ach = 0 \/ dT < 0 THEN 0
      ELSE (((mass_flow * 1005) \div 1000) * dT) \div 100

\* lines 166-179
calculate_venting_loss_W(air_temp, ext_temp, vent_ach) ==
  LET dT == air_temp - ext_temp
  IN  IF vent_ach = 0 \/ dT < 0 THEN 0
      ELSE (UA_vent_c * vent_ach * dT) \div 1000

\* lines 181-191; partial is 0 or 1 here, so the clamp leaves it alone
calculate_heating_gain_W_Standby(heater_on, partial) ==
  IF ~heater_on THEN heater_W \div 10
  ELSE LET p == IF partial < 0 THEN 0 ELSE IF partial > 1 THEN 1 ELSE partial
       IN  (p * heater_W * 9) \div 10

calculate_heating_gain_W(heater_on, partial) ==
  IF ~heater_on THEN 0
  ELSE LET p == IF partial < 0 THEN 0 ELSE IF partial > 1 THEN 1 ELSE partial
       IN  (p * heater_W * 9) \div 10

\* forecast_df.iloc[k : k + horizon] as the dict of the "temp" and "Q_solar"
\* columns (lines 202-206); k is 0-based, a slice past the end is empty.
Horizon(forecast_df, k, horizon) ==
  LET hi == IF k + horizon < Len(forecast_df) THEN k + horizon
            ELSE Len(forecast_df)
  IN  IF k >= hi THEN << >>
      ELSE [i \in 1..(hi - k) |->
              [temp |-> forecast_df[k + i].temp,
               Q_solar |-> forecast_df[k + i].Q_solar]]

\* One 15-minute sub-step, lines 219-233.  s carries the locals air_temp and
\* mass_temp, the mass node's temp_c and the exception raised so far; and,
\* for the call as a whole, mass_calls, the update_temperature calls made,
\* and trace, air_temp and mass_temp at the end of each sub-step completed.
SubStep(s, row, vent_ach, Q_solar_sub, Q_heat_sub) ==
  IF s.raised # "none" THEN s
  ELSE
    LET Q_loss == calculate_heat_loss_W(s.air_temp, row.temp, row.wind_speed) \div 4
        Q_vent == calculate_venting_loss_W(s.air_temp, row.temp, vent_ach) \div 4
        q_to_mass == (8 * Q_solar_sub) \div 10
        q_to_air == (2 * Q_solar_sub) \div 10
        call == CallUpdateTemperature(s.temp_c, << q_to_mass, s.air_temp, s.mass_temp >>)
    IN  IF call.raised # "none"
        THEN [s EXCEPT !.raised = call.raised, !.mass_calls = @ + 1]
        ELSE
          LET mass_temp == call.value
              q_exchange == (h_ma * (mass_temp - s.air_temp)) \div 10
              q_net_air == q_to_air + Q_heat_sub + q_exchange - Q_loss - Q_vent
              air_temp == s.air_temp + q_net_air \div C_per_sub
          IN  [s EXCEPT !.mass_temp = mass_temp,
                        !.temp_c = call.temp_c,
                        !.air_temp = air_temp,
                        !.mass_calls = @ + 1,
                        !.trace = Append(@, [air_temp |-> air_temp,
                                             mass_temp |-> mass_temp])]

\* The 4 sub-steps of an hour, line 218.  (A value is bound through a
\* one-element set where it is used more than once, so that it is computed
\* once.)
RECURSIVE SubSteps(_, _, _, _, _, _)
SubSteps(s, row, vent_ach, Q_solar_sub, Q_heat_sub, n) ==
  IF n = 0 THEN s
  ELSE CHOOSE r \in { SubSteps(t, row, vent_ach, Q_solar_sub, Q_heat_sub, n - 1) :
                        t \in { SubStep(s, row, vent_ach, Q_solar_sub, Q_heat_sub) } } : TRUE

\* Lines 209-249 of hour k, after decide returned d: the physics of the hour
\* and the record appended.  st: the locals air_temp and mass_temp, the mass
\* node's temp_c, ctl (the controller), simulated (the records appended),
\* decisions (what decide returned, per hour), calls and last (the decide
\* calls, as hist and last keep them), raised.  A decision is kept with the
\* Q_heat_hr line 213 computes from it.
HourPhysics(st, a, k, d) ==
  LET row == a.forecast_df[k + 1]
      Q_heat_hr == calculate_heating_gain_W(d.heater_on, d.part_load)
      s0 == [air_temp |-> st.air_temp, mass_temp |-> st.mass_temp,
             temp_c |-> st.temp_c, raised |-> "none",
             mass_calls |-> st.mass_calls, trace |-> st.trace]
      cmd == [heater_on |-> d.heater_on, part_load |-> d.part_load,
              vent_ach |-> d.vent_ach, Q_heat |-> Q_heat_hr]
      decided == [st EXCEPT !.ctl = d.ctl,
                            !.decisions = Append(st.decisions, cmd),
                            !.calls = Append(st.calls, [air_temp |-> st.air_temp,
                                                        heater_on |-> d.heater_on])]
      End(s4) ==
        IF s4.raised # "none"
        THEN [decided EXCEPT !.raised = s4.raised,
                             !.mass_calls = s4.mass_calls, !.trace = s4.trace]
        ELSE [decided EXCEPT
                !.mass_calls = s4.mass_calls, !.trace = s4.trace,
                !.air_temp = s4.air_temp,
                !.mass_temp = s4.mass_temp,
                !.temp_c = s4.temp_c,
                !.simulated = Append(st.simulated,
                   [datetime |-> row.datetime,
                    T_air |-> s4.air_temp, T_mass |-> s4.mass_temp,
                    heater_on |-> d.heater_on, part_load |-> d.part_load,
                    vent_ach |-> d.vent_ach,
                    Q_solar |-> row.Q_solar, Q_heat |-> Q_heat_hr])]
  IN  CHOOSE r \in { End(s4) : s4 \in { SubSteps(s0, row, d.vent_ach,
                                                 row.Q_solar \div 4,
                                                 Q_heat_hr \div 4, 4) } } : TRUE

\* One pass of the hour loop, lines 202-249: the window, decide, the physics.
Hour(st, a, k) ==
  LET horizon_dict == Horizon(a.forecast_df, k, a.horizon)
      After(d) ==
        LET called == [st EXCEPT !.last = CallRecord(st.ctl, st.air_temp, horizon_dict, d)]
        IN  IF d.raised # "none"
            THEN [called EXCEPT !.raised = d.raised]
            ELSE HourPhysics(called, a, k, d)
  IN  CHOOSE r \in { After(d) :
                       d \in { decide(st.ctl, st.air_temp, horizon_dict) } } : TRUE

\* for k in range(start_i, start_i + steps), line 201; an exception ends it.
RECURSIVE HourLoop(_, _, _)
HourLoop(st, a, k) ==
  IF k >= a.start_i + a.steps \/ st.raised # "none" THEN st
  ELSE CHOOSE r \in { HourLoop(h, a, k + 1) : h \in { Hour(st, a, k) } } : TRUE

\* simulate_step, lines 193-254: the loop, then the frame of the records
\* indexed by "datetime"; set_index raises KeyError on a frame of no records,
\* which has no such column.
simulate_step(c, temp, prev_call, a) ==
  LET Frame(st) == IF st.raised = "none" /\ st.simulated = << >>
                   THEN [st EXCEPT !.raised = "KeyError"]
                   ELSE st
  IN  CHOOSE r \in { Frame(st) :
                       st \in { HourLoop([air_temp |-> a.initial_air_temp,
                                          mass_temp |-> a.initial_mass_temp,
                                          temp_c |-> temp, ctl |-> c,
                                          simulated |-> << >>, decisions |-> << >>,
                                          calls |-> << >>, last |-> prev_call,
                                          mass_calls |-> 0, trace |-> << >>,
                                          raised |-> "none"], a, a.start_i) } } : TRUE

\* ------------------------------------ energy.py and twin/energy.py
\* TOU_RATES, in 1e-4 $/kWh
TOU_peak == 3065
TOU_off_peak == 1243
TOU_super_off_peak == 787

\* get_rate, the same in both files
get_rate_SaturdayWeekday(dt) ==
  LET weekday == dt.weekday <= 5
      hour == dt.hour
  IN  IF weekday /\ 15 <= hour /\ hour <= 21
      THEN [period |-> "peak", rate |-> TOU_peak]
      ELSE IF hour >= 23 \/ hour <= 6
      THEN [period |-> "super off peak", rate |-> TOU_super_off_peak]
      ELSE [period |-> "off_peak", rate |-> TOU_off_peak]

get_rate(dt) ==
  LET weekday == dt.weekday < 5
      hour == dt.hour
  IN  IF weekday /\ 15 <= hour /\ hour <= 21
      THEN [period |-> "peak", rate |-> TOU_peak]
      ELSE IF hour >= 23 \/ hour <= 6
      THEN [period |-> "super off peak", rate |-> TOU_super_off_peak]
      ELSE [period |-> "off_peak", rate |-> TOU_off_peak]

\* The body of the row loop of estimate_energy: kwh in tenths of a kWh, cost
\* in 1e-5 $.
EnergyOfRow_CostOfHeatOnly(row, heat_kwh_hourly, vent_kwh_hourly) ==
  LET r == get_rate(row.datetime)
      kwh == row.heating * heat_kwh_hourly + row.venting * vent_kwh_hourly
  IN  [energy_kwh |-> kwh, energy_cost |-> row.heating * heat_kwh_hourly * r.rate,
       period |-> r.period]

EnergyOfRow(row, heat_kwh_hourly, vent_kwh_hourly) ==
  LET r == get_rate(row.datetime)
      kwh == row.heating * heat_kwh_hourly + row.venting * vent_kwh_hourly
      cost == kwh * r.rate
  IN  [energy_kwh |-> kwh, energy_cost |-> cost, period |-> r.period]

\* for _, row in sim_df.iterrows(): the rows from i on, acc holding energy,
\* total_cost and total_kwh
RECURSIVE EnergyLoop(_, _, _, _, _)
EnergyLoop(sim_df, heat_kwh_hourly, vent_kwh_hourly, i, acc) ==
  IF i > Len(sim_df) THEN acc
  ELSE CHOOSE r \in
         { EnergyLoop(sim_df, heat_kwh_hourly, vent_kwh_hourly, i + 1,
                      [energy |-> Append(acc.energy, e),
                       total_cost |-> acc.total_cost + e.energy_cost,
                       total_kwh |-> acc.total_kwh + e.energy_kwh]) :
           e \in { EnergyOfRow(sim_df[i], heat_kwh_hourly, vent_kwh_hourly) } } : TRUE

\* twin/energy.py estimate_energy: (joined, total_kwh, total_cost); joined is
\* sim_df with the energy_kwh and energy_cost columns beside it.
estimate_energy(sim_df, heat_kwh_hourly, vent_kwh_hourly) ==
  LET Result(acc) ==
        [joined |-> [i \in 1..Len(sim_df) |->
                       [datetime |-> sim_df[i].datetime,
                        heating |-> sim_df[i].heating,
                        venting |-> sim_df[i].venting,
                        energy_kwh |-> acc.energy[i].energy_kwh,
                        energy_cost |-> acc.energy[i].energy_cost,
                        period |-> "absent"]],
         total_kwh |-> acc.total_kwh,
         total_cost |-> acc.total_cost]
  IN  CHOOSE r \in { Result(acc) :
        acc \in { EnergyLoop(sim_df, heat_kwh_hourly, vent_kwh_hourly, 1,
                             [energy |-> << >>, total_cost |-> 0, total_kwh |-> 0]) } } : TRUE

\* energy.py estimate_energy (the one app.py imports): (joined, total_cost);
\* joined also has the period column, and no kWh total is returned.
estimate_energy_app(sim_df, heat_kwh_hourly, vent_kwh_hourly) ==
  LET Result(acc) ==
        [joined |-> [i \in 1..Len(sim_df) |->
                       [datetime |-> sim_df[i].datetime,
                        heating |-> sim_df[i].heating,
                        venting |-> sim_df[i].venting,
                        energy_kwh |-> acc.energy[i].energy_kwh,
                        energy_cost |-> acc.energy[i].energy_cost,
                        period |-> acc.energy[i].period]],
         total_kwh |-> -1,
         total_cost |-> acc.total_cost]
  IN  CHOOSE r \in { Result(acc) :
        acc \in { EnergyLoop(sim_df, heat_kwh_hourly, vent_kwh_hourly, 1,
                             [energy |-> << >>, total_cost |-> 0, total_kwh |-> 0]) } } : TRUE

\* --------------------- GreenhouseConfig (GreenhouseEngine.py lines 35-118)
\* int(x) of Python for x = num / den, den > 0: truncation toward zero
IntTrunc(num, den) == IF num >= 0 THEN num \div den ELSE -((-num) \div den)

\* Geometry is fixed by lines 41-44; areas in 1e-2 m2, volume in 1e-2 m3.
cfg_wall_A == 8416
cfg_roof_A == 7626
cfg_floor_A == 6631
cfg_volume_m3 == 20212
\* ua_envelope, lines 75-79, in 1e-3 W/K
cfg_ua_envelope == 446924
\* mass_flow * 1005 of _build_heater_sizing_W, lines 98-99, in 1e-3 W/K
cfg_Q_vent_per_K == 138242
\* concrete mass of one footing, 12 * 0.0283168 * 2400 kg, in 1e-2 kg
footing_mass == 81552
\* soil_m + BAMBOO_MASS_KG, lines 91-93, in 1e-2 kg
soil_bamboo_mass == 1961631
SPECIFIC_HEAT_J_PER_KG == 920

\* lines 87-93, in 1e-2 kg
_build_thermal_mass_KG(num_footings) ==
  num_footings * footing_mass + soil_bamboo_mass

\* lines 95-101: int((Q_cond + Q_vent) * 1.60), in W
_build_heater_sizing_W(design_dT) ==
  IntTrunc((cfg_ua_envelope + cfg_Q_vent_per_K) * 16 * design_dT.num,
           design_dT.den * 10000)

\* GreenhouseConfig.__init__, lines 36-85.  No argument is checked and
\* nothing is raised; the controller is built last (line 85).
GreenhouseConfig(num_footings, design_temp_diff_C) ==
  [raised |-> "none",
   wall_A |-> cfg_wall_A, roof_A |-> cfg_roof_A, floor_A |-> cfg_floor_A,
   glazing_A |-> cfg_wall_A + cfg_roof_A,
   volume |-> cfg_volume_m3,
   mass_kg |-> _build_thermal_mass_KG(num_footings),
   mass_c_p |-> SPECIFIC_HEAT_J_PER_KG,
   ua_envelope |-> cfg_ua_envelope,
   heater |-> _build_heater_sizing_W(design_temp_diff_C),
   controller |-> TRUE]

\* ----------------------- GreenhouseConfig (GreenhouseConfig.py, in feet)
\* areas in 1e-2 ft2, volume in 1e-2 ft3
legacy_wall_area == 90587
legacy_roof_area == 82085
legacy_foundation_area == 71378
legacy_volume_ft3 == 856538
\* 12 * CONCRETE_DENSITY_LB_FT3 * FT3_TO_KG, in 1e-2 kg
legacy_footing_mass == 81647
\* soil_mass + BAMBOO_MASS_KG, in 1e-2 kg
legacy_soil_bamboo_mass == 1962595
\* (glazing_area / 1.8 + foundation_area / 8 + 1.08 * volume / 60 * 2) * 1.3,
\* in 1e-3 BTU/h per degree
legacy_heater_per_deg == 1763922

\* lines 61-66
_calculate_thermal_mass(num_footings) ==
  num_footings * legacy_footing_mass + legacy_soil_bamboo_mass

\* lines 68-74: int((wall_loss + foundation_loss + ventilation_loss) * 1.3)
_calculate_heater_sizing(design_temp_diff) ==
  IntTrunc((legacy_heater_per_deg \div 2) * design_temp_diff.num,
           design_temp_diff.den * 500)

\* GreenhouseConfig.__init__ of GreenhouseConfig.py, lines 23-59; it has no
\* volume in m3, no envelope conductance and no controller.
GreenhouseConfig_legacy(num_footings, design_temp_diff) ==
  [raised |-> "none",
   wall_A |-> legacy_wall_area, roof_A |-> legacy_roof_area,
   floor_A |-> legacy_foundation_area,
   glazing_A |-> legacy_wall_area + legacy_roof_area,
   volume |-> legacy_volume_ft3,
   mass_kg |-> _calculate_thermal_mass(num_footings),
   mass_c_p |-> SPECIFIC_HEAT_J_PER_KG,
   ua_envelope |-> 0,
   heater |-> _calculate_heater_sizing(design_temp_diff),
   controller |-> FALSE]

\* ThermalMass.__init__, lines 14-19: the assert is its only check.
ThermalMass_init(mass_kg, specific_heat) ==
  IF mass_kg > 0 /\ specific_heat > 0 THEN "none" ELSE "AssertionError"

\* ------------- attributes of Predictive: the class and its instances
\* _on_timer, _off_timer, min_on_steps and min_off_steps are assigned in the
\* class body without annotation (Predictive.py lines 17-20): attributes of
\* the class, not fields of the dataclass.  _heater_state is a field, set on
\* every instance by __init__.
PredictiveClass == [_on_timer |-> 0, _off_timer |-> 0]
\* a new instance: own is the set of names in the instance's __dict__
NewPredictive == [_heater_state |-> FALSE, _on_timer |-> 0, _off_timer |-> 0,
                  own |-> {"_heater_state"}]

\* self.name: the instance's attribute if it has one, else the class's
GetAttr(cls, inst, name) == IF name \in inst.own THEN inst[name] ELSE cls[name]

\* self.name = v (also the store of self.name += 1)
SetAttr_OnClass(cls, inst, name, v) ==
  [cls |-> [cls EXCEPT ![name] = v], inst |-> inst]

SetAttr(cls, inst, name, v) ==
  [cls |-> cls, inst |-> [inst EXCEPT ![name] = v, !.own = @ \cup {name}]]

\* the controller state decide reads through self
ControllerOf(cls, inst) ==
  [heater_state |-> inst._heater_state,
   on_timer |-> GetAttr(cls, inst, "_on_timer"),
   off_timer |-> GetAttr(cls, inst, "_off_timer")]

\* the stores of one decide call that returned (lines 56-64 and 72)
StoreController(cls, inst, ctl) ==
  LET a == SetAttr(cls, inst, "_on_timer", ctl.on_timer)
      b == SetAttr(a.cls, a.inst, "_off_timer", ctl.off_timer)
  IN  [cls |-> b.cls, inst |-> [b.inst EXCEPT !._heater_state = ctl.heater_state]]

\* One operation of a run on the run's own controller and mass node: what
\* it stores and what its caller gets.  An hour is simulate_step with
\* steps = 1 on the run's engine.
RunOp(cls, run, op) ==
  LET c == ControllerOf(cls, run.inst)
  IN  IF op.kind = "decide"
      THEN LET Done(d) ==
                 LET w == StoreController(cls, run.inst, d.ctl)
                 IN  [cls |-> w.cls,
                      run |-> [inst |-> w.inst, temp_c |-> run.temp_c,
                               ops |-> Append(run.ops, op),
                               outs |-> Append(run.outs,
                                  [raised |-> d.raised, simulated |-> << >>,
                                   decisions |-> << [heater_on |-> d.heater_on,
                                                     part_load |-> d.part_load,
                                                     vent_ach |-> d.vent_ach] >>])]]
           IN  CHOOSE r \in { Done(d) : d \in { decide(c, op.air_temp, op.forecast_df) } } : TRUE
      ELSE LET Done(st) ==
                 LET w == StoreController(cls, run.inst, st.ctl)
                 IN  [cls |-> w.cls,
                      run |-> [inst |-> w.inst, temp_c |-> st.temp_c,
                               ops |-> Append(run.ops, op),
                               outs |-> Append(run.outs,
                                  [raised |-> st.raised,
                                   simulated |-> IF st.raised = "none"
                                                 THEN st.simulated ELSE << >>,
                                   decisions |-> st.decisions])]]
           IN  CHOOSE r \in { Done(st) : st \in { simulate_step(c, run.temp_c, NoCall,
                    [initial_air_temp |-> op.air_temp, initial_mass_temp |-> 200,
                     forecast_df |-> op.forecast_df, start_i |-> 0, steps |-> 1,
                     horizon |-> 2]) } } : TRUE

\* ------------------------------------------------------------- actions

NoOutcome == [raised |-> "never", simulated |-> << >>, decisions |-> << >>,
              mass_calls |-> 0, trace |-> << >>, temp_c_in |-> 0, temp_c_out |-> 0]
NoArgs == [initial_air_temp |-> 0, initial_mass_temp |-> 0, forecast_df |-> << >>,
           start_i |-> 0, steps |-> 0, horizon |-> 0]
NoSim == [args |-> NoArgs, out |-> NoOutcome, prev |-> NoOutcome]
NoEnergyCall == [fn |-> "none", dt |-> [weekday |-> 0, hour |-> 0],
                 period |-> "absent", rate |-> 0,
                 sim_df |-> << >>, heat_kwh_hourly |-> 0, vent_kwh_hourly |-> 0,
                 joined |-> << >>, total_kwh |-> 0, total_cost |-> 0]
NoConfig == [raised |-> "never", wall_A |-> 0, roof_A |-> 0, floor_A |-> 0,
             glazing_A |-> 0, volume |-> 0, mass_kg |-> 0, mass_c_p |-> 0,
             ua_envelope |-> 0, heater |-> 0, controller |-> FALSE]
NoConfigCall == [module |-> "none", num_footings |-> 0,
                 design_dT |-> [num |-> 0, den |-> 1],
                 cfg |-> NoConfig, engine |-> "none",
                 prev |-> [module |-> "none", num_footings |-> 0,
                           design_dT |-> [num |-> 0, den |-> 1],
                           mass_kg |-> 0, heater |-> 0]]
NoMassCall == [raised |-> "never", shape |-> "none", caller_step |-> 0,
               heat_input_watts |-> 0, air_temp |-> 0, temp_before |-> 0,
               joules |-> 0, returned |-> 0]
NoMassNode == [built |-> FALSE, mass_kg |-> 0, specific_heat |-> 0, temp_c |-> 0,
               ncalls |-> 0, still |-> 0, call |-> NoMassCall]
NoLossCall == [called |-> FALSE, cfg |-> DummyCfg, air_temp |-> 0, ext_temp |-> 0,
               wind_m_s |-> 0, Q_total |-> 0]
\* a run that owns a new config (its controller) and a new engine (its mass
\* node), newApp.py run_sim lines 13-14
NewRun == [inst |-> NewPredictive, temp_c |-> mass_initial_temp,
           ops |-> << >>, outs |-> << >>]
NoIso == [started |-> FALSE, cls |-> PredictiveClass,
          run |-> [r \in RunIds |-> NewRun], last_run |-> 0, switches |-> 0]

\* The state after cfg = GreenhouseConfig(lat, lon) and
\* engine = GreenhouseThermalEngine(cfg, 20.0).
NoPred == [calls |-> 0, raised |-> "none", air_temp |-> 0, forecast_df |-> << >>,
           T_pred |-> << >>, lead_steps |-> 0, want |-> FALSE,
           state_in |-> FALSE, on_in |-> 0, off_in |-> 0,
           heater_on |-> FALSE, vent_ach |-> 0]

NoVentCall == [called |-> FALSE, cfg |-> DummyCfg, air_temp |-> 0, ext_temp |-> 0,
               vent_ach |-> 0, Q_vent |-> 0]

Init ==
  /\ _heater_state = FALSE
  /\ _on_timer = 0
  /\ _off_timer = 0
  /\ hist = << >>
  /\ last = NoCall
  /\ temp_c = mass_initial_temp
  /\ runs = 0
  /\ sim = NoSim
  /\ energy_call = NoEnergyCall
  /\ config_call = NoConfigCall
  /\ mass_node = NoMassNode
  /\ loss_call = NoLossCall
  /\ iso = NoIso
  /\ pred = NoPred
  /\ vent_call = NoVentCall

\* A client calls cfg.controller.decide(air_temp, window).
Decide(air_temp, forecast_df) ==
  /\ Len(hist) < MaxCalls
  /\ \E r \in { decide(Controller, air_temp, forecast_df) } :
         /\ _heater_state' = r.ctl.heater_state
         /\ _on_timer' = r.ctl.on_timer
         /\ _off_timer' = r.ctl.off_timer
         /\ last' = CallRecord(Controller, air_temp, forecast_df, r)
         /\ hist' = IF r.raised = "none"
                    THEN Append(hist, [air_temp |-> air_temp, heater_on |-> r.heater_on])
                    ELSE hist
  /\ UNCHANGED << temp_c, runs, sim, energy_call >>
  /\ UNCHANGED partVars

\* A client builds a new config and engine (newApp.py run_sim, lines 15-16):
\* a new controller and a new mass node.
BuildConfig ==
  /\ runs > 0
  /\ _heater_state' = FALSE
  /\ _on_timer' = 0
  /\ _off_timer' = 0
  /\ hist' = << >>
  /\ last' = NoCall
  /\ temp_c' = mass_initial_temp
  /\ runs' = 0
  /\ sim' = NoSim
  /\ UNCHANGED energy_call
  /\ UNCHANGED partVars

\* A client calls engine.simulate_step(**a).  sim.prev is how the call before
\* it on this engine ended, when that call had the same arguments.  Beside
\* what the call returned or raised, sim.out keeps the update_temperature
\* calls it made, the sub-steps it completed and the mass node's temp_c
\* before and after it.
SimulateStep(a) ==
  /\ runs < MaxRuns
  /\ \E st \in { simulate_step(Controller, temp_c, last, a) } :
     LET out == [raised |-> st.raised,
                 simulated |-> IF st.raised = "none" THEN st.simulated ELSE << >>,
                 decisions |-> st.decisions,
                 mass_calls |-> st.mass_calls, trace |-> st.trace,
                 temp_c_in |-> temp_c, temp_c_out |-> st.temp_c]
     IN  /\ _heater_state' = st.ctl.heater_state
         /\ _on_timer' = st.ctl.on_timer
         /\ _off_timer' = st.ctl.off_timer
         /\ temp_c' = st.temp_c
         /\ hist' = hist \o st.calls
         /\ last' = st.last
         /\ sim' = [args |-> a, out |-> out,
                    prev |-> IF runs > 0 /\ sim.args = a THEN sim.out ELSE NoOutcome]
  /\ runs' = runs + 1
  /\ UNCHANGED energy_call
  /\ UNCHANGED partVars

Next == \E a \in AirTemps, w \in Windows : Decide(a, w)

Spec == Init /\ [][Next]_vars

NextEngine == BuildConfig \/ \E a \in SimArgs : SimulateStep(a)

SpecEngine == Init /\ [][NextEngine]_vars

\* A client calls get_rate(dt).
GetRate(dt) ==
  /\ \E r \in { get_rate(dt) } :
       energy_call' = [NoEnergyCall EXCEPT !.fn = "get_rate", !.dt = dt,
                                          !.period = r.period, !.rate = r.rate]
  /\ UNCHANGED << _heater_state, _on_timer, _off_timer, hist, last, temp_c, runs, sim >>
  /\ UNCHANGED partVars

\* A client calls estimate_energy(sim_df, heat, vent) of twin/energy.py.
EstimateEnergy(sim_df, heat, vent) ==
  /\ \E r \in { estimate_energy(sim_df, heat, vent) } :
       energy_call' = [NoEnergyCall EXCEPT !.fn = "estimate_energy",
                         !.sim_df = sim_df, !.heat_kwh_hourly = heat,
                         !.vent_kwh_hourly = vent, !.joined = r.joined,
                         !.total_kwh = r.total_kwh, !.total_cost = r.total_cost]
  /\ UNCHANGED << _heater_state, _on_timer, _off_timer, hist, last, temp_c, runs, sim >>
  /\ UNCHANGED partVars

\* A client calls estimate_energy(sim_df, heat, vent) of energy.py.
EstimateEnergyApp(sim_df, heat, vent) ==
  /\ \E r \in { estimate_energy_app(sim_df, heat, vent) } :
       energy_call' = [NoEnergyCall EXCEPT !.fn = "estimate_energy_app",
                         !.sim_df = sim_df, !.heat_kwh_hourly = heat,
                         !.vent_kwh_hourly = vent, !.joined = r.joined,
                         !.total_kwh = r.total_kwh, !.total_cost = r.total_cost]
  /\ UNCHANGED << _heater_state, _on_timer, _off_timer, hist, last, temp_c, runs, sim >>
  /\ UNCHANGED partVars

NextEnergy ==
  \/ \E dt \in Datetimes : GetRate(dt)
  \/ \E f \in EnergyFrames, h \in HeatKwh, v \in VentKwh : EstimateEnergy(f, h, v)
  \/ \E f \in EnergyFrames, h \in HeatKwh, v \in VentKwh : EstimateEnergyApp(f, h, v)

SpecEnergy == Init /\ [][NextEnergy]_vars

\* A client constructs GreenhouseConfig(lat, lon, num_footings, dT) of the
\* given module; prev keeps the arguments and results of the construction
\* before it.
ConstructConfig(module, num_footings, dT) ==
  /\ \E c \in { IF module = "GreenhouseEngine"
                 THEN GreenhouseConfig(num_footings, dT)
                 ELSE GreenhouseConfig_legacy(num_footings, dT) } :
       config_call' = [module |-> module, num_footings |-> num_footings,
                       design_dT |-> dT, cfg |-> c, engine |-> "none",
                       prev |-> [module |-> config_call.module,
                                 num_footings |-> config_call.num_footings,
                                 design_dT |-> config_call.design_dT,
                                 mass_kg |-> config_call.cfg.mass_kg,
                                 heater |-> config_call.cfg.heater]]
  /\ UNCHANGED << mass_node, loss_call, iso, pred, vent_call >>
  /\ UNCHANGED twinVars

\* A client builds GreenhouseThermalEngine(cfg, 20.0) on the config just
\* constructed (GreenhouseEngine.py lines 134-137): the mass node's assert
\* is the only check on the way.
BuildEngine ==
  /\ config_call.module = "GreenhouseEngine"
  /\ config_call.cfg.raised = "none"
  /\ config_call.engine = "none"
  /\ \E r \in { ThermalMass_init(config_call.cfg.mass_kg, config_call.cfg.mass_c_p) } :
       config_call' = [config_call EXCEPT
                         !.engine = IF r = "none" THEN "built" ELSE r]
  /\ UNCHANGED << mass_node, loss_call, iso, pred, vent_call >>
  /\ UNCHANGED twinVars

NextConfig ==
  \/ \E m \in ConfigModules, n \in NumFootings, d \in DesignDTs : ConstructConfig(m, n, d)
  \/ BuildEngine

SpecConfig == Init /\ [][NextConfig]_vars

\* A client builds ThermalMass(mass_kg, specific_heat, initial_temp).
NewThermalMass(n, initial_temp) ==
  /\ ThermalMass_init(n.mass_kg, n.specific_heat) = "none"
  /\ mass_node' = [built |-> TRUE, mass_kg |-> n.mass_kg,
                   specific_heat |-> n.specific_heat, temp_c |-> initial_temp,
                   ncalls |-> 0, still |-> 0, call |-> NoMassCall]
  /\ UNCHANGED << config_call, loss_call, iso, pred, vent_call >>
  /\ UNCHANGED twinVars

\* A caller advancing a step of caller_step seconds calls
\* node.update_temperature in the given shape.  call.joules is
\* total_heat_input_joules, so that the exact change is joules / (10 * C)
\* Kelvin; still counts the calls so far that had no heat input and
\* air_temp equal to the node's temperature.
UpdateTemperature(shape, caller_step, heat_input_watts, air_temp) ==
  /\ mass_node.built
  /\ mass_node.ncalls < MaxMassCalls
  /\ \E b \in { BindUpdateTemperature(shape) } :
       IF b # "none"
       THEN mass_node' = [mass_node EXCEPT
              !.ncalls = @ + 1,
              !.call = [raised |-> b, shape |-> shape, caller_step |-> caller_step,
                        heat_input_watts |-> heat_input_watts, air_temp |-> air_temp,
                        temp_before |-> mass_node.temp_c, joules |-> 0,
                        returned |-> 0]]
       ELSE \E t \in { ThermalMass_update(mass_node.mass_kg * mass_node.specific_heat,
                                           mass_node.temp_c, heat_input_watts, air_temp) } :
              mass_node' = [mass_node EXCEPT
                !.temp_c = t,
                !.ncalls = @ + 1,
                !.still = IF heat_input_watts = 0 /\ air_temp = mass_node.temp_c
                          THEN @ + 1 ELSE @,
                !.call = [raised |-> "none", shape |-> shape,
                          caller_step |-> caller_step,
                          heat_input_watts |-> heat_input_watts, air_temp |-> air_temp,
                          temp_before |-> mass_node.temp_c,
                          joules |-> total_heat_input_joules(mass_node.temp_c,
                                                             heat_input_watts, air_temp),
                          returned |-> t]]
  /\ UNCHANGED << config_call, loss_call, iso, pred, vent_call >>
  /\ UNCHANGED twinVars

NextMass ==
  \/ \E n \in MassNodes, t \in MassInitialTemps : NewThermalMass(n, t)
  \/ \E c \in Callers, h \in MassHeats, a \in MassAirTemps :
       UpdateTemperature(c.shape, c.step, h, a)

SpecMass == Init /\ [][NextMass]_vars

\* A client calls engine.calculate_heat_loss_W(air_temp, ext_temp, wind_m_s)
\* on an engine whose cfg is the given one.
CalculateHeatLoss(cfg, air_temp, ext_temp, wind_m_s) ==
  /\ \E q \in { heat_loss(cfg, air_temp, ext_temp, wind_m_s) } :
       loss_call' = [called |-> TRUE, cfg |-> cfg, air_temp |-> air_temp,
                     ext_temp |-> ext_temp, wind_m_s |-> wind_m_s, Q_total |-> q]
  /\ UNCHANGED << config_call, mass_node, iso, pred, vent_call >>
  /\ UNCHANGED twinVars

NextLoss ==
  \E cfg \in LossCfgs, a \in LossAirTemps, e \in LossExtTemps, w \in LossWinds :
    CalculateHeatLoss(cfg, a, e, w)

SpecLoss == Init /\ [][NextLoss]_vars

\* A client calls engine.calculate_venting_loss_W(air_temp, ext_temp, vent_ach)
\* on an engine whose cfg is the given one.
CalculateVentingLoss(cfg, air_temp, ext_temp, vent_ach) ==
  /\ \E q \in { vent_loss(cfg, air_temp, ext_temp, vent_ach) } :
       vent_call' = [called |-> TRUE, cfg |-> cfg, air_temp |-> air_temp,
                     ext_temp |-> ext_temp, vent_ach |-> vent_ach, Q_vent |-> q]
  /\ UNCHANGED << config_call, mass_node, loss_call, iso, pred >>
  /\ UNCHANGED twinVars

NextVent ==
  \E cfg \in LossCfgs, a \in LossAirTemps, e \in LossExtTemps, v \in VentAchs :
    CalculateVentingLoss(cfg, a, e, v)

SpecVent == Init /\ [][NextVent]_vars

\* Two clients each build their own GreenhouseConfig and engine.
StartRuns ==
  /\ ~iso.started
  /\ iso' = [NoIso EXCEPT !.started = TRUE]
  /\ UNCHANGED << config_call, mass_node, loss_call, pred, vent_call >>
  /\ UNCHANGED twinVars

\* Run r makes its next decide call or simulates its next hour, at any
\* point between the operations of the other run.  switches counts how
\* often the run acting has changed, up to three times.
RunStep(r, op) ==
  /\ iso.started
  /\ Len(iso.run[r].ops) < MaxIsoOps
  /\ \E w \in { RunOp(iso.cls, iso.run[r], op) } :
       iso' = [iso EXCEPT !.cls = w.cls,
                          !.run[r] = w.run,
                          !.last_run = r,
                          !.switches = IF iso.last_run \notin {0, r} /\ @ < 3
                                       THEN @ + 1 ELSE @]
  /\ UNCHANGED << config_call, mass_node, loss_call, pred, vent_call >>
  /\ UNCHANGED twinVars

NextIso == StartRuns \/ \E r \in RunIds, op \in IsoOps : RunStep(r, op)

SpecIso == Init /\ [][NextIso]_vars

\* A client calls cfg.controller.decide(air_temp, window); the window, the
\* roll-out T_pred_off and lead_steps of the call are kept beside what it
\* returned.  An empty window raises before any of them exists.
DecideKeepingPrediction(air_temp, forecast_df) ==
  /\ pred.calls < MaxPredCalls
  /\ \E r \in { decide(Controller, air_temp, forecast_df) } :
       /\ _heater_state' = r.ctl.heater_state
       /\ _on_timer' = r.ctl.on_timer
       /\ _off_timer' = r.ctl.off_timer
       /\ pred' =
            [calls |-> pred.calls + 1, raised |-> r.raised,
             air_temp |-> air_temp, forecast_df |-> forecast_df,
             T_pred |-> IF r.raised = "none"
                        THEN T_pred_off(air_temp, forecast_df, Len(forecast_df))
                        ELSE << >>,
             lead_steps |-> IF r.raised = "none"
                            THEN lead_steps(SeqMin([i \in 1..Len(forecast_df) |->
                                                      forecast_df[i].temp]))
                            ELSE 0,
             want |-> r.want, state_in |-> _heater_state,
             on_in |-> _on_timer, off_in |-> _off_timer,
             heater_on |-> r.heater_on, vent_ach |-> r.vent_ach]
  /\ UNCHANGED << hist, last, temp_c, runs, sim, energy_call >>
  /\ UNCHANGED << config_call, mass_node, loss_call, iso, vent_call >>

NextPredict == \E a \in PredAirTemps, w \in Windows : DecideKeepingPrediction(a, w)

SpecPredict == Init /\ [][NextPredict]_vars

\* ===================================================== claims C1..C4
\* Hard limits of the comfort band, compared doubled so that deadband / 2
\* stays exact: air_temp < T_set - deadband / 2, air_temp > T_set + deadband / 2.
BelowHardLow(air_temp) == 2 * air_temp < 2 * T_set - deadband
AboveHardHigh(air_temp) == 2 * air_temp > 2 * T_set + deadband

\* Call n switched the heater on: it returned heater_on = TRUE and the call
\* before it (or, for the first call, the fresh controller) had it off.
TurnedOnAt(n) == hist[n].heater_on /\ (n = 1 \/ ~hist[n - 1].heater_on)
\* Call n switched the heater off after a call that returned TRUE.
TurnedOffAt(n) == n > 1 /\ ~hist[n].heater_on /\ hist[n - 1].heater_on

\* C1: every decide call with air_temp < T_set - deadband/2 returns
\* heater_on = TRUE, whatever the heater state, the dwell counters and the
\* window are.
C1_HardLowAlwaysOn ==
  \A i \in DOMAIN hist : BelowHardLow(hist[i].air_temp) => hist[i].heater_on

\* C2: every decide call with air_temp > T_set + deadband/2 returns
\* heater_on = FALSE, whatever the heater state, the dwell counters and the
\* window are.
C2_HardHighAlwaysOff ==
  \A i \in DOMAIN hist : AboveHardHigh(hist[i].air_temp) => ~hist[i].heater_on

\* C3: minimum on-dwell.  When call n switches the heater on, each of the
\* calls n+1 and n+2 that finds it still on returns heater_on = TRUE unless
\* air_temp > T_set + deadband/2 at that call: nothing but the hard high
\* override switches the heater off after fewer than 3 consecutive
\* on-decisions.
C3_MinOnDwell ==
  \A n \in DOMAIN hist : TurnedOnAt(n) =>
    \A m \in (n + 1)..(n + 2) :
      (m \in DOMAIN hist /\ \A j \in n..(m - 1) : hist[j].heater_on)
        => (hist[m].heater_on \/ AboveHardHigh(hist[m].air_temp))

\* C3 witness: the heater was switched on two calls ago after an off-decision
\* and the latest call kept it on although the forecast asked for no heat.
C3_Witness ==
  /\ Len(hist) >= 4
  /\ last.raised = "none"
  /\ LET n == Len(hist) - 2
     IN  /\ ~hist[n - 1].heater_on
         /\ hist[n].heater_on /\ hist[n + 1].heater_on /\ hist[n + 2].heater_on
  /\ ~last.want
  /\ ~AboveHardHigh(last.air_temp)

\* C4: minimum off-dwell.  When call n switches the heater off, each of the
\* calls n+1 and n+2 that finds it still off returns heater_on = FALSE unless
\* air_temp < T_set - deadband/2 at that call: a predicted drop alone does
\* not switch the heater on after fewer than 3 consecutive off-decisions.
C4_MinOffDwell ==
  \A n \in DOMAIN hist : TurnedOffAt(n) =>
    \A m \in (n + 1)..(n + 2) :
      (m \in DOMAIN hist /\ \A j \in n..(m - 1) : ~hist[j].heater_on)
        => (~hist[m].heater_on \/ BelowHardLow(hist[m].air_temp))

\* C4 witness: the heater was switched off two calls ago and the latest call
\* kept it off although the forecast predicted a drop within the lead time.
C4_Witness ==
  /\ Len(hist) >= 4
  /\ last.raised = "none"
  /\ LET n == Len(hist) - 2
     IN  /\ hist[n - 1].heater_on
         /\ ~hist[n].heater_on /\ ~hist[n + 1].heater_on /\ ~hist[n + 2].heater_on
  /\ last.want
  /\ ~BelowHardLow(last.air_temp)

\* ===================================================== claims C5..C8
\* The latest simulate_step call had at least one hour to simulate and a
\* forecast row for every hour.
SimRan == sim.out.raised # "never"
EnoughRows == sim.args.start_i + sim.args.steps <= Len(sim.args.forecast_df)
Returned == sim.out.raised = "none"

\* C5: a simulate_step call with a forecast row for each of its hours returns
\* exactly `steps` records, record j carrying the timestamp of forecast row
\* start_i + j, in forecast order.
C5_OneRecordPerHour ==
  (SimRan /\ sim.args.steps >= 1 /\ EnoughRows) =>
    /\ Returned
    /\ Len(sim.out.simulated) = sim.args.steps
    /\ \A j \in 1..Len(sim.out.simulated) :
         sim.out.simulated[j].datetime
           = sim.args.forecast_df[sim.args.start_i + j].datetime

\* C6: truncation policy.  When the forecast covers the hours but not the
\* whole lookahead of the last hour (start_i + steps <= len < start_i + steps
\* + horizon), simulate_step does not fail and still returns `steps` records.
Truncating ==
  /\ EnoughRows
  /\ Len(sim.args.forecast_df) < sim.args.start_i + sim.args.steps + sim.args.horizon
C6_TruncationTolerated ==
  (SimRan /\ sim.args.steps >= 1 /\ Truncating) =>
    (Returned /\ Len(sim.out.simulated) = sim.args.steps)

\* C7: determinism.  A simulate_step call repeated with identical arguments
\* on the same config and engine returns, and returns what the call before
\* it did: the same records, and the same heater_on, part_load and vent_ach
\* commanded in every hour.
C7_RepeatedRunIdentical ==
  sim.prev # NoOutcome =>
    /\ Returned
    /\ sim.out.raised = sim.prev.raised
    /\ sim.out.simulated = sim.prev.simulated
    /\ sim.out.decisions = sim.prev.decisions

\* C8: thermal fixed point.  With a constant exterior temperature T, no sun,
\* no wind and initial_air_temp = initial_mass_temp = T, a run in which the
\* heater and the vents stay off returns records whose T_air and T_mass are
\* all T.
ConstantForecast(T) ==
  \A i \in DOMAIN sim.args.forecast_df :
    /\ sim.args.forecast_df[i].temp = T
    /\ sim.args.forecast_df[i].Q_solar = 0
    /\ sim.args.forecast_df[i].wind_speed = 0
C8_ThermalFixedPoint ==
  ( /\ SimRan /\ sim.args.steps >= 1 /\ EnoughRows
    /\ sim.args.initial_air_temp = sim.args.initial_mass_temp
    /\ ConstantForecast(sim.args.initial_air_temp)
    /\ \A i \in DOMAIN sim.out.decisions :
         ~sim.out.decisions[i].heater_on /\ sim.out.decisions[i].vent_ach = 0 )
  => /\ Returned
     /\ \A j \in DOMAIN sim.out.simulated :
          /\ sim.out.simulated[j].T_air = sim.args.initial_air_temp
          /\ sim.out.simulated[j].T_mass = sim.args.initial_air_temp

\* ===================================================== claims C9..C10
\* The time-of-use schedule as the specification states it.
PeakSlots == (0..4) \X (15..21)
SuperOffPeakHours == {23} \cup (0..6)
ScheduledRate(dt) ==
  IF << dt.weekday, dt.hour >> \in PeakSlots THEN 3065
  ELSE IF dt.hour \in SuperOffPeakHours THEN 787
  ELSE 1243

RECURSIVE SumOf(_, _)
\* the sum of column col over the first n rows of the latest joined frame
SumOf(col, n) ==
  IF n = 0 THEN 0 ELSE SumOf(col, n - 1) + energy_call.joined[n][col]

EstimateCalled == energy_call.fn \in {"estimate_energy", "estimate_energy_app"}

\* C9: every row of estimate_energy's frame has energy_kwh = heating *
\* heat_kwh_hourly + venting * vent_kwh_hourly and energy_cost = energy_kwh *
\* the rate of the row's period; the totals returned are the column sums; a
\* weekday 17:00 row with heating = 1, venting = 0 has energy_kwh =
\* heat_kwh_hourly and energy_cost = heat_kwh_hourly * 0.3065.
C9_EnergyAccounting ==
  EstimateCalled =>
    LET c == energy_call
        n == Len(c.sim_df)
    IN  /\ Len(c.joined) = n
        /\ \A i \in 1..n :
             /\ c.joined[i].energy_kwh
                  = c.sim_df[i].heating * c.heat_kwh_hourly
                    + c.sim_df[i].venting * c.vent_kwh_hourly
             /\ c.joined[i].energy_cost
                  = c.joined[i].energy_kwh * ScheduledRate(c.sim_df[i].datetime)
             /\ ( /\ c.sim_df[i].heating = 1 /\ c.sim_df[i].venting = 0
                  /\ c.sim_df[i].datetime.weekday <= 4
                  /\ c.sim_df[i].datetime.hour = 17 )
                => /\ c.joined[i].energy_kwh = c.heat_kwh_hourly
                   /\ c.joined[i].energy_cost = c.heat_kwh_hourly * 3065
        /\ c.total_cost = SumOf("energy_cost", n)
        /\ c.fn = "estimate_energy" => c.total_kwh = SumOf("energy_kwh", n)

\* C9 witness: a two-row frame, a heating-only Monday 17:00 row and a
\* venting row, has been accounted by twin/energy.py.
C9_Witness ==
  /\ energy_call.fn = "estimate_energy"
  /\ Len(energy_call.sim_df) = 2
  /\ energy_call.sim_df[1] = [datetime |-> [weekday |-> 0, hour |-> 17],
                               heating |-> 1, venting |-> 0]
  /\ energy_call.sim_df[2].venting = 2
  /\ energy_call.joined[1].energy_cost = energy_call.heat_kwh_hourly * 3065
  /\ energy_call.total_kwh > energy_call.heat_kwh_hourly

\* C10: get_rate puts every (weekday, hour) into exactly one period: peak
\* (0.3065) iff Monday-Friday and 15 <= hour <= 21; otherwise super-off-peak
\* (0.0787) iff hour >= 23 or hour <= 6; otherwise off-peak (0.1243).  Weekend
\* hours 15-21 and hour 22 of any day are off-peak.
C10_RateSchedule ==
  energy_call.fn = "get_rate" =>
    LET dt == energy_call.dt
        p == energy_call.period
    IN  /\ energy_call.rate = ScheduledRate(dt)
        /\ p \in {"peak", "super off peak", "off_peak"}
        /\ p = "peak" <=> energy_call.rate = 3065
        /\ p = "super off peak" <=> energy_call.rate = 787
        /\ p = "off_peak" <=> energy_call.rate = 1243
        /\ p = "peak" <=> (dt.weekday <= 4 /\ 15 <= dt.hour /\ dt.hour <= 21)
        /\ (dt.weekday >= 5 /\ dt.hour \in 15..21) => p = "off_peak"
        /\ dt.hour = 22 => p = "off_peak"

\* C10 witness: get_rate has classified Saturday 17:00 as off-peak.
C10_Witness ==
  /\ energy_call.fn = "get_rate"
  /\ energy_call.dt = [weekday |-> 5, hour |-> 17]
  /\ energy_call.period = "off_peak"
  /\ energy_call.rate = 1243

\* ===================================================== claims C11..C12
Constructed == config_call.module # "none"
\* dT > 0 for dT = num / den, den > 0
Positive(dT) == dT.num > 0
\* a <= b for fractions with positive denominators
FracLeq(a, b) == a.num * b.den <= b.num * a.den

\* C11: constructing a GreenhouseConfig with a footing count of zero or less
\* fails with ConfigurationError and yields no config, so that no controller
\* and no engine is built from it.
C11_NonPhysicalRejected ==
  (Constructed /\ config_call.num_footings <= 0) =>
    /\ config_call.cfg.raised = "ConfigurationError"
    /\ ~config_call.cfg.controller
    /\ config_call.engine # "built"

\* C12: for a valid input (footing count >= 1, design differential > 0) all
\* areas, the volume, the thermal mass, the envelope conductance and the
\* heater capacity are strictly positive; glazing area = wall area + roof
\* area; of two constructions by the same class the one with more footings
\* has strictly more thermal mass, and the one with the larger differential
\* has no smaller heater capacity.
C12_DerivedPositiveMonotone ==
  (Constructed /\ config_call.num_footings >= 1 /\ Positive(config_call.design_dT)) =>
    LET c == config_call.cfg
        p == config_call.prev
    IN  /\ c.raised = "none"
        /\ c.wall_A > 0 /\ c.roof_A > 0 /\ c.floor_A > 0 /\ c.glazing_A > 0
        /\ c.volume > 0 /\ c.mass_kg > 0
        /\ config_call.module = "GreenhouseEngine" => c.ua_envelope > 0
        /\ c.heater > 0
        /\ c.glazing_A = c.wall_A + c.roof_A
        /\ (p.module = config_call.module /\ p.num_footings >= 1
            /\ Positive(p.design_dT)) =>
             /\ p.num_footings < config_call.num_footings => p.mass_kg < c.mass_kg
             /\ FracLeq(p.design_dT, config_call.design_dT) => p.heater <= c.heater

\* ===================================================== claims C13..C15
MassCalled == mass_node.built /\ mass_node.call.raised = "none"
Abs(x) == IF x < 0 THEN -x ELSE x
\* the node is the mass of a valid greenhouse config: 920 J/kg/K and the
\* mass of at least one footing
ConfiguredMass ==
  /\ mass_node.specific_heat = SPECIFIC_HEAT_J_PER_KG
  /\ 100 * mass_node.mass_kg >= (_build_thermal_mass_KG(1) \div 100) * 100

\* C13: an update_temperature call with heat input 0 and air_temp equal to
\* the node's temperature returns that temperature and leaves temp_c as it
\* was, however many such calls were made before.
C13_MassFixedPoint ==
  (MassCalled /\ mass_node.call.heat_input_watts = 0
              /\ mass_node.call.air_temp = mass_node.call.temp_before) =>
    /\ mass_node.call.returned = mass_node.call.temp_before
    /\ mass_node.temp_c = mass_node.call.temp_before
    /\ mass_node.call.joules = 0

\* C13 witness: two such calls in a row on a node at 40.0 degC.
C13_Witness ==
  /\ MassCalled
  /\ mass_node.still >= 2
  /\ mass_node.call.heat_input_watts = 0
  /\ mass_node.call.air_temp = 400
  /\ mass_node.temp_c = 400

\* C14: on the mass of a greenhouse config, one update_temperature call with
\* heat input 0 and air_temp different from the node's temperature moves the
\* temperature strictly toward air_temp (the exact change joules / C has the
\* sign of air_temp - temp and is not zero) and never past it (the change is
\* no larger than the difference, and the new temp_c lies between the old
\* one and air_temp).
C14_MassApproachesAir ==
  (MassCalled /\ ConfiguredMass /\ mass_node.call.heat_input_watts = 0
              /\ mass_node.call.air_temp # mass_node.call.temp_before) =>
    LET c == mass_node.call
        diff == c.air_temp - c.temp_before
        C == mass_node.mass_kg * mass_node.specific_heat
    IN  /\ c.joules # 0
        /\ (c.joules > 0) = (diff > 0)
        /\ Abs(c.joules) \div 1000 <= Abs(diff) * (C \div 1000)
        /\ IF diff > 0
           THEN c.temp_before <= mass_node.temp_c /\ mass_node.temp_c <= c.air_temp
           ELSE c.air_temp <= mass_node.temp_c /\ mass_node.temp_c <= c.temp_before
        /\ c.returned = mass_node.temp_c

\* C14 witness: the 8-footing mass at 20.0 degC met air at 40.0 degC and
\* warmed by a tenth of a degree.
C14_Witness ==
  /\ MassCalled
  /\ mass_node.mass_kg = 26140
  /\ mass_node.call.heat_input_watts = 0
  /\ mass_node.call.temp_before = 200
  /\ mass_node.call.air_temp = 400
  /\ mass_node.temp_c = 201

\* C15: every update_temperature call returns mass_temp + (k_exchange *
\* (air_temp - mass_temp) + heat_input) * dt / (mass_kg * specific_heat) with
\* dt the step its caller is advancing (3600 s in the test, 900 s in an
\* engine sub-step); the test's call (1000 W for one hour into 100 kg at
\* 1000 J/kg/K, air_temp = mass_temp) returns mass_temp + 36 K.
C15_MassRecurrence ==
  (mass_node.built /\ mass_node.call.raised # "never") =>
    LET c == mass_node.call
        C == mass_node.mass_kg * mass_node.specific_heat
        flow == HEAT_EXCHANGE_RATE * (c.air_temp - c.temp_before)
                  + 10 * c.heat_input_watts
    IN  /\ c.raised = "none"
        /\ c.returned = c.temp_before + (flow * c.caller_step) \div C
        /\ ( /\ c.shape = "test" /\ c.heat_input_watts = 1000
             /\ c.air_temp = c.temp_before
             /\ mass_node.mass_kg = 100 /\ mass_node.specific_heat = 1000 )
           => c.returned = c.temp_before + 360

\* ===================================================== claim C16
\* The conductance the claim states, in 1e-3 W/K: the four area / resistance
\* terms and volume * leak_ach / 3600 * 1.2 * 1005.
ClaimedUA(cfg) ==
  (cfg.wall_A * 100000) \div cfg.wall_R + (cfg.roof_A * 100000) \div cfg.roof_R
  + (cfg.floor_A * 100000) \div cfg.floor_R
  + (cfg.glazing_A * 100000) \div cfg.glazing_R
  + (cfg.volume_m3 * cfg.leak_ach * 1206) \div 36000

\* C16: calculate_heat_loss_W returns (sum of area / resistance over wall,
\* roof, floor and glazing + volume * leak_ach / 3600 * 1.2 * 1005) *
\* (interior - exterior) * (1 + 0.05 * wind), to within 0.05 W of rounding;
\* exactly 0 when interior = exterior; 43.35 W for the all-ones cfg at a
\* 10 K difference and no wind.
C16_HeatLossFormula ==
  loss_call.called =>
    LET c == loss_call
        dT == c.air_temp - c.ext_temp
        claimed == (((ClaimedUA(c.cfg) * dT) \div 100) * (100 + 5 * c.wind_m_s)) \div 100
    IN  /\ Abs(c.Q_total - claimed) <= 5
        /\ dT = 0 => c.Q_total = 0
        /\ (c.cfg = DummyCfg /\ dT = 100 /\ c.wind_m_s = 0) => Abs(c.Q_total - 4335) <= 1

\* C16 witness: the default config at 20.0 degC inside, -5.0 degC outside
\* and 3 m/s of wind loses heat; the claimed conductance is 980.6 W/K.
C16_Witness ==
  /\ loss_call.called
  /\ loss_call.cfg = EngineCfg
  /\ loss_call.air_temp = 200 /\ loss_call.ext_temp = -50 /\ loss_call.wind_m_s = 3
  /\ loss_call.Q_total > 2800000
  /\ loss_call.Q_total < 2830000

\* ===================================================== claim C17
\* The run that makes the operations ops[1..n] alone, on a new config and
\* engine with nothing else running.
RECURSIVE Alone(_, _)
Alone(ops, n) ==
  IF n = 0 THEN [cls |-> PredictiveClass, run |-> NewRun]
  ELSE CHOOSE r \in { RunOp(PredictiveClass, a.run, ops[n]) : a \in { Alone(ops, n - 1) } } : TRUE

\* what a run shows: heater state, dwell counters, mass temperature, outputs
RunView(cls, run) ==
  [ctl |-> ControllerOf(cls, run.inst), temp_c |-> run.temp_c, outs |-> run.outs]

\* C17: under every interleaving of the two runs' decide calls and
\* simulation hours, each run's heater state, dwell counters and outputs are
\* those of the same run executing alone.
C17_RunsIsolated ==
  iso.started =>
    \A r \in RunIds :
      \E a \in { Alone(iso.run[r].ops, Len(iso.run[r].ops)) } :
        RunView(iso.cls, iso.run[r]) = RunView(a.cls, a.run)

\* C17 witness: both runs made two operations each, taking turns, and the
\* runs ended in different controller states.
C17_Witness ==
  /\ iso.started
  /\ \A r \in RunIds : Len(iso.run[r].ops) = 2
  /\ iso.switches >= 3
  /\ iso.run[1].inst._heater_state /\ ~iso.run[2].inst._heater_state
  /\ iso.run[1].inst._on_timer # iso.run[2].inst._on_timer

\* ================================================== claims C18..C20
Predicted == pred.calls > 0 /\ pred.raised = "none"

\* the 0-based index of the first step of T_pred below low_band, -1 if none
EarliestDrop(T_pred) ==
  IF \E i \in DOMAIN T_pred : T_pred[i] < low_band
  THEN (CHOOSE i \in DOMAIN T_pred :
          T_pred[i] < low_band /\ \A j \in 1..(i - 1) : ~(T_pred[j] < low_band)) - 1
  ELSE -1

\* C18: before dwell gating and hard overrides, the forecast asks for heat
\* if and only if some index of decide's unforced prediction (index 0 is
\* the current air temperature) is below T_set - deadband/2 - safety_margin
\* and the earliest such index is at most lead_steps; an air temperature
\* already below that band counts as a drop.
C18_ForecastDecision ==
  Predicted =>
    (pred.want <=> (EarliestDrop(pred.T_pred) >= 0
                    /\ EarliestDrop(pred.T_pred) <= pred.lead_steps))

\* The step of the claimed recurrence:
\* T[k] = T_ext[k-1] + (T[k-1] - T_ext[k-1]) * alpha + Q_solar[k-1] * dt / C.
ClaimedStep(T_prev, row) ==
  row.temp + ((T_prev - row.temp) * alpha_num) \div alpha_den
           + (10 * row.Q_solar) \div C_per_dt

\* C19: T_pred[0] is air_temp and every later element follows from the one
\* before it by the decay towards the exterior temperature plus the solar
\* term, with no other loss subtracted (to within 0.1 degC of rounding).
C19_UnforcedPrediction ==
  Predicted =>
    /\ Len(pred.T_pred) = Len(pred.forecast_df)
    /\ pred.T_pred[1] = pred.air_temp
    /\ \A k \in 2..Len(pred.T_pred) :
         Abs(pred.T_pred[k] - ClaimedStep(pred.T_pred[k - 1], pred.forecast_df[k - 1])) <= 1

\* the unforced prediction as the claimed recurrence gives it
RECURSIVE ClaimedPrediction(_, _, _)
ClaimedPrediction(air_temp, forecast_df, n) ==
  IF n = 1 THEN << air_temp >>
  ELSE LET p == ClaimedPrediction(air_temp, forecast_df, n - 1)
       IN  Append(p, ClaimedStep(p[n - 1], forecast_df[n - 1]))

\* C20: vent_ach is 0 or vent_max_ach, and it is vent_max_ach if and only
\* if some step of the unforced prediction over the window is above
\* T_set + deadband/2 + 5, whatever the heater state and the dwell counters.
C20_VentDecision ==
  Predicted =>
    /\ pred.vent_ach \in {0, vent_max_ach}
    /\ pred.vent_ach = vent_max_ach <=>
         \E k \in 1..Len(pred.forecast_df) :
           ClaimedPrediction(pred.air_temp, pred.forecast_df,
                             Len(pred.forecast_df))[k] > hi_band

\* The same rule read against the roll-out decide itself computed.
VentFollowsOwnRollOut ==
  Predicted =>
    /\ pred.vent_ach \in {0, vent_max_ach}
    /\ pred.vent_ach = vent_max_ach <=>
         \E k \in DOMAIN pred.T_pred : pred.T_pred[k] > hi_band

\* ===================================================== claim C21
BangBang(r) == r.part_load = (IF r.heater_on THEN 1 ELSE 0)

ShortWindow == pred.calls > 0 /\ Len(pred.forecast_df) < 2
ControllerAtEntry == [heater_state |-> pred.state_in,
                      on_timer |-> pred.on_in, off_timer |-> pred.off_in]

\* C22: a decide call with a window of fewer than 2 points does not fail,
\* the forecast asks for neither heating nor ventilation (vent_ach = 0), and
\* heater_on is what the dwell gating and the hard overrides make of "no
\* heating asked" in the controller state at entry.
C22_ShortWindow ==
  ShortWindow =>
    /\ pred.raised = "none"
    /\ ~pred.want
    /\ pred.vent_ach = 0
    /\ pred.heater_on = HardOverride(ControllerAtEntry, pred.air_temp,
                                      Hysteresis(ControllerAtEntry, FALSE).heater_on)

\* The same for a window of exactly one point, where the call returns.
OnePointWindow ==
  (pred.calls > 0 /\ Len(pred.forecast_df) = 1) =>
    /\ pred.raised = "none"
    /\ ~pred.want
    /\ pred.vent_ach = 0

\* ===================================================== claim C23
WindowMin == SeqMin([i \in 1..Len(pred.forecast_df) |-> pred.forecast_df[i].temp])
HasWindow == pred.calls > 0 /\ Len(pred.forecast_df) >= 1

WarmWindowReturned ==
  /\ HasWindow
  /\ WindowMin > T_set
  /\ pred.raised = "none"

\* ===================================================== claim C24
\* C24: a simulate_step call whose forecast has fewer than start_i + steps
\* rows fails with an explicit insufficient-forecast error; it returns no
\* result.
C24_InsufficientForecast ==
  (SimRan /\ ~EnoughRows) =>
    /\ sim.out.raised = "InsufficientForecastError"
    /\ sim.out.simulated = << >>

\* What such a call does: it returns nothing, and ends in an error raised
\* somewhere inside the hour loop or the framing of the records.
InsufficientEndsInIncidentalError ==
  (SimRan /\ ~EnoughRows) =>
    /\ sim.out.raised \in {"TypeError", "IndexError", "KeyError"}
    /\ sim.out.simulated = << >>

\* ===================================================== claim C25
\* the number of rows of the window of hour k: forecast_df.iloc[k : k + horizon]
WindowLen(k) ==
  IF k + sim.args.horizon <= Len(sim.args.forecast_df) THEN sim.args.horizon
  ELSE Len(sim.args.forecast_df) - k

\* C25: a simulate_step call with a forecast row for each of its hours
\* calls decide once per hour, `steps` times in all, the first time with the
\* initial air temperature and the window starting at start_i, and writes
\* to each hour's record the heater_on, part_load and vent_ach decide
\* returned for that hour.
C25_ControlBeforePhysics ==
  (SimRan /\ sim.args.steps >= 1 /\ EnoughRows) =>
    /\ Returned
    /\ Len(sim.out.decisions) = sim.args.steps
    /\ Len(sim.out.simulated) = sim.args.steps
    /\ \A j \in DOMAIN sim.out.simulated :
         /\ sim.out.simulated[j].heater_on = sim.out.decisions[j].heater_on
         /\ sim.out.simulated[j].part_load = sim.out.decisions[j].part_load
         /\ sim.out.simulated[j].vent_ach = sim.out.decisions[j].vent_ach

\* What such a call does: decide is called once, for the first hour, with
\* the initial air temperature and the window starting at start_i, and the
\* physics of that hour then raises.
FirstHourDecidedThenRaised ==
  (SimRan /\ sim.args.steps >= 1 /\ EnoughRows) =>
    /\ sim.out.raised = "TypeError"
    /\ Len(sim.out.decisions) = 1
    /\ last.raised = "none"
    /\ last.air_temp = sim.args.initial_air_temp
    /\ last.H = WindowLen(sim.args.start_i)
    /\ last.heater_on = sim.out.decisions[1].heater_on
    /\ last.vent_ach = sim.out.decisions[1].vent_ach

\* ===================================================== claim C26
\* Sub-step i of a call (1-based, 4 to the hour): its hour, the forecast row
\* and the decision of that hour, and the air temperature it starts from.
HourOf(i) == (i - 1) \div 4
RowOf(i) == sim.args.forecast_df[sim.args.start_i + HourOf(i) + 1]
DecisionOf(i) == sim.out.decisions[HourOf(i) + 1]
AirBefore(i) == IF i = 1 THEN sim.args.initial_air_temp
                ELSE sim.out.trace[i - 1].air_temp

\* The claimed net flow into the air in sub-step i, in Watts: solar gain to
\* air (the fifth of Q_solar that is not given to the mass) + heating gain +
\* exchange flow - conduction/infiltration loss - ventilation loss.
ClaimedNetFlow(i) ==
  (2 * RowOf(i).Q_solar) \div 10
  + DecisionOf(i).Q_heat
  + (h_ma * (sim.out.trace[i].mass_temp - AirBefore(i))) \div 10
  - calculate_heat_loss_W(AirBefore(i), RowOf(i).temp, RowOf(i).wind_speed)
  - calculate_venting_loss_W(AirBefore(i), RowOf(i).temp, DecisionOf(i).vent_ach)

\* C26: a simulate_step call with a forecast row for each of its hours makes
\* 4 sub-steps per hour, and in each the air temperature advances by the net
\* flow in Watts * 900 s / (rho_cp_V + mass_kg * mass_c_p), to within 0.1
\* degC of rounding.
C26_AirNodeUpdate ==
  (SimRan /\ sim.args.steps >= 1 /\ EnoughRows) =>
    /\ Len(sim.out.trace) = 4 * sim.args.steps
    /\ \A i \in DOMAIN sim.out.trace :
         Abs(sim.out.trace[i].air_temp
               - (AirBefore(i) + ClaimedNetFlow(i) \div C_per_sub)) <= 1

\* What such a call does: it completes no sub-step.
NoSubStepCompletes == sim.out.trace = << >>

\* ===================================================== claim C27
\* air density * volume * vent_ach / 3600 * 1005 W/K, in 1e-3 W/K
ClaimedVentUA(cfg, vent_ach) ==
  (((((cfg.volume_m3 * 1005) \div 36) * vent_ach) \div 100) * 1225) \div 1000

\* C27: calculate_venting_loss_W returns 0 when vent_ach is 0 or when the
\* interior is colder than the exterior, otherwise air density * volume *
\* vent_ach / 3600 * 1005 * (interior - exterior), to within 0.05 W; the
\* result is never negative.
C27_VentingLoss ==
  vent_call.called =>
    LET c == vent_call
        dT == c.air_temp - c.ext_temp
    IN  /\ c.Q_vent >= 0
        /\ (c.vent_ach = 0 \/ dT < 0) => c.Q_vent = 0
        /\ (c.vent_ach # 0 /\ dT >= 0) =>
             Abs(c.Q_vent - (ClaimedVentUA(c.cfg, c.vent_ach) * dT) \div 100) <= 5

\* the default engine venting at 2.0 ACH with 20.0 degC inside and -5.0
\* outside loses 138.24 W/K * 25 K = 3456 W; and a call with the interior
\* colder than the exterior is told apart by its zero
C27_Witness ==
  /\ vent_call.called
  /\ vent_call.cfg = EngineCfg
  /\ vent_call.air_temp = 200 /\ vent_call.ext_temp = -50 /\ vent_call.vent_ach = 20
  /\ vent_call.Q_vent > 345000
  /\ vent_call.Q_vent < 346200

\* the interior colder than the exterior with the vents open: no loss, no gain
ColdInteriorVented ==
  /\ vent_call.called
  /\ vent_call.air_temp < vent_call.ext_temp
  /\ vent_call.vent_ach > 0
  /\ vent_call.Q_vent = 0

\* ===================================================== claim C28
\* C28: in a simulate_step call with a forecast row for each of its hours
\* update_temperature is called once per sub-step, 4 times per hour; the
\* first update starts from the caller's initial_mass_temp; the T_mass of
\* each record is what the last update of its hour returned; and the mass
\* node is left at the value of the last update.
C28_MassNodeOwnership ==
  (SimRan /\ sim.args.steps >= 1 /\ EnoughRows) =>
    /\ sim.out.mass_calls = 4 * sim.args.steps
    /\ Len(sim.out.trace) = sim.out.mass_calls
    /\ sim.out.trace[1].mass_temp
         = update_temperature(sim.args.initial_mass_temp,
                              (8 * (RowOf(1).Q_solar \div 4)) \div 10,
                              sim.args.initial_air_temp)
    /\ Len(sim.out.simulated) = sim.args.steps
    /\ \A j \in DOMAIN sim.out.simulated :
         sim.out.simulated[j].T_mass = sim.out.trace[4 * j].mass_temp
    /\ sim.out.temp_c_out = sim.out.trace[Len(sim.out.trace)].mass_temp

\* What such a call does: one update_temperature call, which raises, and a
\* mass node left as it was.
OneUpdateRaisesMassUntouched ==
  (SimRan /\ sim.args.steps >= 1 /\ EnoughRows) =>
    /\ sim.out.mass_calls = 1
    /\ sim.out.raised = "TypeError"
    /\ sim.out.temp_c_out = sim.out.temp_c_in
    /\ sim.out.temp_c_in = mass_initial_temp

\* ===================================================== claim C29
ControllerVars == << _heater_state, _on_timer, _off_timer >>

\* C29: a step in which a decide call returned leaves the persisted heater
\* state equal to the heater_on the call returned, and the call started
\* from the heater state and the dwell counters as they were before the
\* step, also when the decide before it belonged to an earlier
\* simulate_step call on the same config; a step in which no decide call
\* returned changes neither the heater state nor the dwell counters.
C29_ControllerStateUpdate ==
  [][ /\ Len(hist') > Len(hist) =>
           /\ last'.raised = "none"
           /\ _heater_state' = last'.heater_on
           /\ hist'[Len(hist')].heater_on = _heater_state'
           /\ last'.state_in = _heater_state
           /\ last'.on_in = _on_timer
           /\ last'.off_in = _off_timer
      /\ hist' = hist => UNCHANGED ControllerVars ]_vars

\* a second simulate_step call on a config whose first call left the heater
\* on: its decide started with the heater on and returned the state kept
C29_Witness ==
  /\ runs >= 2
  /\ Len(hist) >= 2
  /\ hist[Len(hist) - 1].heater_on
  /\ last.raised = "none"
  /\ last.state_in
  /\ last.on_in = 0
  /\ _heater_state = last.heater_on

\* ===================================================== claim C30
\* The heater state at entry to the i-th decide call that returned: off at
\* the first, afterwards what the call before it returned.
EntryState(h, i) == IF i = 1 THEN FALSE ELSE h[i - 1].heater_on

\* the number of consecutive calls, the latest one included, entered with
\* the heater state the latest call was entered with
RECURSIVE SameEntryRun(_, _)
SameEntryRun(h, i) ==
  IF i = 1 \/ EntryState(h, i - 1) # EntryState(h, Len(h)) THEN 1
  ELSE 1 + SameEntryRun(h, i - 1)

\* C30: after every decide call that returned, exactly one dwell counter is
\* 0 and the other at least 1; the on-counter is the non-zero one exactly
\* when the call was entered with the heater on, and it is the number of
\* consecutive calls entered with the heater on (likewise the off-counter);
\* a call moves each counter up by 1 or back to 0.
C30_DwellCounters ==
  [][ hist' # hist =>
        LET n == Len(hist')
            on == EntryState(hist', n)
            run == SameEntryRun(hist', n)
        IN  /\ on = last'.state_in
            /\ run >= 1
            /\ on => (_on_timer' = run /\ _off_timer' = 0)
            /\ ~on => (_off_timer' = run /\ _on_timer' = 0)
            /\ (_on_timer' = 0) # (_off_timer' = 0)
            /\ _on_timer' \in {0, _on_timer + 1}
            /\ _off_timer' \in {0, _off_timer + 1} ]_vars

\* after three calls entered with the heater off, two calls entered with it
\* on: the on-counter is at 2 and the off-counter back at 0
C30_Witness ==
  /\ Len(hist) = 5
  /\ ~hist[1].heater_on /\ ~hist[2].heater_on
  /\ hist[3].heater_on /\ hist[4].heater_on
  /\ _on_timer = 2
  /\ _off_timer = 0

====
